---- MODULE Spec2Model ----
(***************************************************************************)
(* Model of src/app.py: the DXF generator's preparation pipeline           *)
(* (_prepare_data_for_dxf), its drawing emitter (create_dxf_drawing) and   *)
(* the two routes that drive them (generate_dxf_from_form,                 *)
(* generate_dxf_batch).                                                    *)
(*                                                                         *)
(* Representation of Python values:                                        *)
(*   str    [t |-> "str",  s |-> <<c1, ..., cn>>]   one element per        *)
(*          character; an ASCII character is a one-character string, a     *)
(*          non-ASCII character is named by its code point ("U+00E7").     *)
(*   float  [t |-> "num", k |-> "fin", n |-> num, d |-> den] (n/d in       *)
(*          lowest terms, d > 0), or k |-> "inf" (n the sign) or "nan".    *)
(*          Floats are modelled by exact rationals: binary rounding error  *)
(*          and the sign of zero are not represented.  Python ints are     *)
(*          the rationals with d = 1.                                      *)
(*   list   [t |-> "list", items |-> <<line1, ...>>] of character          *)
(*          sequences.                                                     *)
(*   dict   a function from keys (TLA+ strings) to values; a dict whose    *)
(*          iteration order matters (a raw record) is a sequence of        *)
(*          <<key, value>> pairs with distinct keys.                       *)
(* A cell pandas leaves empty (read_excel with dtype=str) is the float nan, *)
(* a truthy value whose str() is "nan" and which cannot be iterated.       *)
(***************************************************************************)
EXTENDS Integers, Sequences, FiniteSets, TLC

\* --------------------------------------------------------------- characters

\* The characters of a TLA+ string literal, one element each.
Chars(lit) == [i \in 1..Len(lit) |-> SubSeq(lit, i, i)]

RECURSIVE Join(_)
\* The TLA+ string spelled by a sequence of characters.
Join(cs) == IF cs = <<>> THEN "" ELSE Head(cs) \o Join(Tail(cs))

LowerLetters == Chars("abcdefghijklmnopqrstuvwxyz")
UpperLetters == Chars("ABCDEFGHIJKLMNOPQRSTUVWXYZ")
DigitChars == Chars("0123456789")

\* Non-ASCII letters of the model's alphabet: c with cedilla, small and capital.
CCedilla == "U+00E7"
CapCCedilla == "U+00C7"

Range(seq) == {seq[i] : i \in 1..Len(seq)}

IndexOf(seq, c) == CHOOSE i \in 1..Len(seq) : seq[i] = c

IsDigit(c) == c \in Range(DigitChars)

DigitVal(c) == IndexOf(DigitChars, c) - 1

DigitChar(v) == DigitChars[v + 1]

\* str.lower() on one character.
LowerChar(c) ==
    IF c \in Range(UpperLetters) THEN LowerLetters[IndexOf(UpperLetters, c)]
    ELSE IF c = CapCCedilla THEN CCedilla
    ELSE c

\* str.upper() on one character.
UpperChar(c) ==
    IF c \in Range(LowerLetters) THEN UpperLetters[IndexOf(LowerLetters, c)]
    ELSE IF c = CCedilla THEN CapCCedilla
    ELSE c

StrLower(cs) == [i \in 1..Len(cs) |-> LowerChar(cs[i])]

StrUpper(cs) == [i \in 1..Len(cs) |-> UpperChar(cs[i])]

\* str.replace(a, b) for single characters a and b.
StrReplace(cs, a, b) == [i \in 1..Len(cs) |-> IF cs[i] = a THEN b ELSE cs[i]]

IsSpace(c) == c \in {" ", "\t", "\n"}

RECURSIVE LStrip(_)
LStrip(cs) == IF cs # <<>> /\ IsSpace(Head(cs)) THEN LStrip(Tail(cs)) ELSE cs

RECURSIVE RStrip(_)
RStrip(cs) ==
    IF cs # <<>> /\ IsSpace(cs[Len(cs)]) THEN RStrip(SubSeq(cs, 1, Len(cs) - 1)) ELSE cs

\* str.strip()
StrStrip(cs) == RStrip(LStrip(cs))

\* ------------------------------------------------------------------ numbers

Abs(i) == IF i < 0 THEN -i ELSE i

RECURSIVE Gcd(_, _)
Gcd(a, b) == IF b = 0 THEN a ELSE Gcd(b, a % b)

RECURSIVE Pow10(_)
Pow10(k) == IF k = 0 THEN 1 ELSE 10 * Pow10(k - 1)

\* The float n/d (d # 0), in lowest terms with a positive denominator.
Fin(n, d) ==
    LET g == Gcd(Abs(n), Abs(d))
        s == IF d < 0 THEN -1 ELSE 1
    IN [t |-> "num", k |-> "fin", n |-> (s * n) \div g, d |-> Abs(d) \div g]

IntNum(i) == Fin(i, 1)

NaN == [t |-> "num", k |-> "nan", n |-> 0, d |-> 0]

Inf(sign) == [t |-> "num", k |-> "inf", n |-> sign, d |-> 0]

IsFinite(x) == x.k = "fin"

IsNaN(x) == x.k = "nan"

\* -1, 0 or 1: the sign of a float that is not nan.
Sign(x) == IF x.n < 0 THEN -1 ELSE IF x.n > 0 THEN 1 ELSE 0

\* x < y on floats (False when either is nan).
NumLt(x, y) ==
    IF IsNaN(x) \/ IsNaN(y) THEN FALSE
    ELSE IF x.k = "inf" THEN x.n < 0 /\ ~(y.k = "inf" /\ y.n < 0)
    ELSE IF y.k = "inf" THEN y.n > 0
    ELSE x.n * y.d < y.n * x.d

NumGt(x, y) == NumLt(y, x)

\* x <= y on floats (False when either is nan).
NumLe(x, y) == ~IsNaN(x) /\ ~IsNaN(y) /\ ~NumLt(y, x)

\* x * y on floats (inf * 0 and anything with nan give nan).
NumMul(x, y) ==
    IF IsNaN(x) \/ IsNaN(y) THEN NaN
    ELSE IF x.k = "inf" \/ y.k = "inf"
         THEN IF Sign(x) * Sign(y) = 0 THEN NaN ELSE Inf(Sign(x) * Sign(y))
    ELSE Fin(x.n * y.n, x.d * y.d)

\* x / c for a positive integer literal c.
NumDivInt(x, c) == IF IsFinite(x) THEN Fin(x.n, x.d * c) ELSE x

\* -x
NumNeg(x) ==
    IF IsNaN(x) THEN x
    ELSE IF x.k = "inf" THEN Inf(-x.n)
    ELSE Fin(-x.n, x.d)

\* x - y on floats (inf - inf and anything with nan give nan).
NumSub(x, y) ==
    IF IsNaN(x) \/ IsNaN(y) THEN NaN
    ELSE IF x.k = "inf" THEN (IF y.k = "inf" /\ y.n = x.n THEN NaN ELSE x)
    ELSE IF y.k = "inf" THEN Inf(-y.n)
    ELSE Fin(x.n * y.d - y.n * x.d, x.d * y.d)

\* Python's max(a, b): b when b > a, else a (so a nan first argument is kept).
PyMax2(a, b) == IF NumGt(b, a) THEN b ELSE a

\* Python's min(a, b): b when b < a, else a.
PyMin2(a, b) == IF NumLt(b, a) THEN b ELSE a

\* Python's max(a, b, c): the running maximum, left to right.
PyMax3(a, b, c) == PyMax2(PyMax2(a, b), c)

\* Whether int(x) raises (ValueError for nan, OverflowError for infinity).
IntRaises(x) == ~IsFinite(x)

\* int(x) for a finite float: truncation toward zero.
IntTrunc(x) == IF x.n < 0 THEN -(Abs(x.n) \div x.d) ELSE x.n \div x.d

\* --------------------------------------------------- parsing and formatting

RECURSIVE DigitsVal(_)
\* The number a sequence of decimal digits spells (0 for none).
DigitsVal(ds) ==
    IF ds = <<>> THEN 0
    ELSE 10 * DigitsVal(SubSeq(ds, 1, Len(ds) - 1)) + DigitVal(ds[Len(ds)])

RECURSIVE IntChars(_)
\* The decimal digits of a natural number.
IntChars(i) == IF i < 10 THEN <<DigitChar(i)>> ELSE IntChars(i \div 10) \o <<DigitChar(i % 10)>>

\* A decimal literal without sign or exponent: digits with at most one point and
\* at least one digit ("5", "5.", ".5", "10.5").
IsDecimal(body) ==
    /\ \A i \in 1..Len(body) : IsDigit(body[i]) \/ body[i] = "."
    /\ Cardinality({i \in 1..Len(body) : body[i] = "."}) <= 1
    /\ \E i \in 1..Len(body) : IsDigit(body[i])

DecimalValue(body) ==
    LET dots == {i \in 1..Len(body) : body[i] = "."}
        p == IF dots = {} THEN Len(body) + 1 ELSE CHOOSE i \in dots : TRUE
        whole == SubSeq(body, 1, p - 1)
        frac == SubSeq(body, p + 1, Len(body))
    IN Fin(DigitsVal(whole \o frac), Pow10(Len(frac)))

\* What float(s) raises for a string that is no float literal.
ValueError == [t |-> "raise", exc |-> "ValueError"]

\* float(s) for a string s: surrounding whitespace is dropped, then an optional
\* sign and "inf", "infinity", "nan" (any case) or a decimal literal.  The
\* exponent and digit-underscore forms of Python's grammar are not modelled; no
\* string of the model's inputs uses them.
PyFloat(cs) ==
    LET s == StrStrip(cs)
        signed == s # <<>> /\ Head(s) \in {"+", "-"}
        sgn == IF signed /\ Head(s) = "-" THEN -1 ELSE 1
        body == IF signed THEN Tail(s) ELSE s
        low == StrLower(body)
    IN IF low \in {Chars("inf"), Chars("infinity")} THEN Inf(sgn)
       ELSE IF low = Chars("nan") THEN NaN
       ELSE IF IsDecimal(body) THEN NumMul(IntNum(sgn), DecimalValue(body))
       ELSE ValueError

PyNone == [t |-> "none"]

Str(cs) == [t |-> "str", s |-> cs]

\* A string value from a TLA+ literal.
Lit(lit) == Str(Chars(lit))

\* str(value) for the values to_float receives: a raw string, or one of the int
\* literals 7, 1, 2 that params.get(..., default) supplies.
PyStr(value) ==
    IF value.t = "str" THEN value.s
    ELSE IF IsNaN(value) THEN Chars("nan")
    ELSE IF value.k = "inf" THEN (IF value.n < 0 THEN Chars("-inf") ELSE Chars("inf"))
    ELSE (IF value.n < 0 THEN <<"-">> ELSE <<>>) \o IntChars(Abs(value.n) \div value.d)

\* A mutant of to_float: the decimal comma is not replaced by a point.
to_float_no_comma(value, default) ==
    IF value = PyNone THEN default
    ELSE LET r == PyFloat(PyStr(value)) IN IF r = ValueError THEN default ELSE r

\* to_float (nested in _prepare_data_for_dxf)
to_float(value, default) ==
    IF value = PyNone THEN default
    ELSE LET r == PyFloat(StrReplace(PyStr(value), ",", "."))
         IN IF r = ValueError THEN default ELSE r

RECURSIVE ZeroPad(_, _)
ZeroPad(cs, width) == IF Len(cs) >= width THEN cs ELSE ZeroPad(<<"0">> \o cs, width)

\* f"{x:.<prec>f}": fixed-point with prec decimals, rounding half to even.
FormatFixed(x, prec) ==
    IF IsNaN(x) THEN Chars("nan")
    ELSE IF x.k = "inf" THEN (IF x.n < 0 THEN Chars("-inf") ELSE Chars("inf"))
    ELSE LET scaled == Abs(x.n) * Pow10(prec)
             q == scaled \div x.d
             r == scaled % x.d
             m == IF 2 * r > x.d \/ (2 * r = x.d /\ q % 2 = 1) THEN q + 1 ELSE q
         IN (IF x.n < 0 THEN <<"-">> ELSE <<>>)
            \o IntChars(m \div Pow10(prec)) \o <<".">>
            \o ZeroPad(IntChars(m % Pow10(prec)), prec)

\* f"{i:02d}" for an int i.
FormatInt02(i) == IF i < 0 THEN <<"-">> \o IntChars(-i) ELSE ZeroPad(IntChars(i), 2)

\* ------------------------------------------------------------- dictionaries

EmptyDict == [k \in {} |-> PyNone]

\* d[k] = v
Put(d, k, v) == (k :> v) @@ d

\* d.get(k, default)
Get(d, k, default) == IF k \in DOMAIN d THEN d[k] ELSE default

\* bool(value)
Truthy(v) ==
    CASE v.t = "none" -> FALSE
      [] v.t = "str" -> v.s # <<>>
      [] v.t = "num" -> ~(IsFinite(v) /\ v.n = 0)
      [] v.t = "list" -> v.items # <<>>
      [] OTHER -> TRUE

\* The keys of a raw record (a sequence of <<key, value>> pairs), in order.
KeysOf(raw) == [i \in 1..Len(raw) |-> raw[i][1]]

RECURSIVE DictUpdate(_, _)
\* dict.update: a key the record has keeps its place and takes the new value, a
\* new key is appended.
DictUpdate(raw, other) ==
    IF other = <<>> THEN raw
    ELSE LET k == Head(other)[1]
             v == Head(other)[2]
             at == {i \in 1..Len(raw) : raw[i][1] = k}
             upd == IF at = {} THEN Append(raw, <<k, v>>)
                    ELSE [i \in 1..Len(raw) |-> IF i \in at THEN <<k, v>> ELSE raw[i]]
         IN DictUpdate(upd, Tail(other))

\* ----------------------------------------------------------- key normalizer

COLUMN_MAPPING ==
    "nome_arquivo" :> "part_name" @@ "custom_filename" :> "part_name"
    @@ "drawing_code" :> "part_name" @@ "forma" :> "shape"
    @@ "largura" :> "width" @@ "altura" :> "height" @@ "diametro" :> "diameter"
    @@ "base_(cateto_1)" :> "rt_base" @@ "altura_(cateto_2)" :> "rt_height"
    @@ "base" :> "triangle_base" @@ "habilitar_bloco" :> "include_text_info"
    @@ "cotas" :> "include_dims" @@ "qtd" :> "part_quantity"
    @@ "espessura" :> "material_thickness"

\* str(old_key).strip().lower().replace(' ', '_')
clean_key(old_key) == Join(StrReplace(StrLower(StrStrip(Chars(old_key))), " ", "_"))

\* COLUMN_MAPPING.get(clean_key, clean_key)
internal_key(old_key) ==
    LET ck == clean_key(old_key)
    IN IF ck \in DOMAIN COLUMN_MAPPING THEN COLUMN_MAPPING[ck] ELSE ck

RECURSIVE TranslateKeys(_, _)
\* Step 1 of _prepare_data_for_dxf: each raw pair, in the record's order, is
\* stored under its internal key; a later pair overwrites an earlier one.
TranslateKeys(raw, params) ==
    IF raw = <<>> THEN params
    ELSE TranslateKeys(Tail(raw), Put(params, internal_key(Head(raw)[1]), Head(raw)[2]))

\* ------------------------------------------------------ validator / coercer

NumericKeys ==
    <<"width", "height", "diameter", "material_thickness", "material_density",
      "part_quantity">>

\* The default to_float is called with for a numeric key.
CoerceDefault(key) == IF key = "part_quantity" THEN IntNum(1) ELSE IntNum(0)

RECURSIVE CoerceNumeric(_, _)
\* Step 3: every numeric key the record has is replaced by its float; a key the
\* record lacks stays absent.
CoerceNumeric(params, keys) ==
    IF keys = <<>> THEN params
    ELSE LET key == Head(keys)
         IN CoerceNumeric(
                IF key \in DOMAIN params
                THEN Put(params, key, to_float(params[key], CoerceDefault(key)))
                ELSE params,
                Tail(keys))

\* The truthy tokens of the checkbox-like options.
TruthyTokens == {Chars("true"), Chars("on"), Chars("1"), Chars("sim")}

\* str(params.get(key, '')).lower() in ['true', 'on', '1', 'sim']
OptionEnabled(params, key) == StrLower(PyStr(Get(params, key, Lit("")))) \in TruthyTokens

\* ---------------------------------------------------------- style calculator

\* max_dim = max(width, height, diameter), the three read with default 0
RawMaxDim(params) ==
    PyMax3(Get(params, "width", IntNum(0)), Get(params, "height", IntNum(0)),
           Get(params, "diameter", IntNum(0)))

\* max_dim = max_dim if max_dim > 0 else 200
PositiveOr200(m) == IF NumGt(m, IntNum(0)) THEN m ELSE IntNum(200)

\* A mutant of Clamp: the lower clamp is dropped.
ClampNoFloor(x) == PyMin2(x, IntNum(35))

\* min(max(x, 5), 35)
Clamp(x) == PyMin2(PyMax2(x, IntNum(5)), IntNum(35))

\* char_height (step 4)
CharHeight(params) == Clamp(NumDivInt(PositiveOr200(RawMaxDim(params)), 25))

\* The three colour fields, each to_float(params.get(key, default)) before int().
ColorFloats(params) ==
    <<to_float(Get(params, "contour_color", IntNum(7)), IntNum(0)),
      to_float(Get(params, "holes_color", IntNum(1)), IntNum(0)),
      to_float(Get(params, "text_color", IntNum(2)), IntNum(0))>>

FirstRaising(cf) == CHOOSE i \in 1..3 : IntRaises(cf[i]) /\ \A j \in 1..(i - 1) : ~IntRaises(cf[j])

ExceptionOfInt(x) == IF IsNaN(x) THEN "ValueError" ELSE "OverflowError"

\* Whether one of the three int() calls of step 4 raises.
ColorRaises(params) == \E x \in Range(ColorFloats(params)) : IntRaises(x)

\* The exception int() raises on the first colour that is nan or infinite.
ColorException(params) == ExceptionOfInt(ColorFloats(params)[FirstRaising(ColorFloats(params))])

StylesOf(params, cf, char_height) ==
    [t |-> "styles",
     contour_color |-> IntTrunc(cf[1]),
     holes_color |-> IntTrunc(cf[2]),
     text_color |-> IntTrunc(cf[3]),
     include_dims |-> OptionEnabled(params, "include_dims"),
     char_height |-> char_height,
     dim_distance |-> PyMax2(IntNum(15), NumMul(char_height, IntNum(3))),
     text_insert_point |-> <<IntNum(0), NumMul(NumNeg(char_height), IntNum(2))>>]

\* params['styles'] (step 4), for colours int() accepts.
Styles(params) == StylesOf(params, ColorFloats(params), CharHeight(params))

\* ------------------------------------------------ weight / metadata calculator

\* The density params.get('material_density', 7850) falls back to.
DefaultDensity == 7850

\* area_mm2: width * height for a rectangle, 0 for any other shape.
AreaMm2(params) ==
    IF params["shape"] = Lit("rectangle")
    THEN NumMul(Get(params, "width", IntNum(0)), Get(params, "height", IntNum(0)))
    ELSE IntNum(0)

\* unit_weight_kg = (area_mm2 / 1_000_000) * (material_thickness / 1_000) * density
UnitWeightKg(params) ==
    LET volume_m3 == NumMul(NumDivInt(AreaMm2(params), 1000000),
                            NumDivInt(Get(params, "material_thickness", IntNum(0)), 1000))
    IN NumMul(volume_m3, Get(params, "material_density", IntNum(DefaultDensity)))

\* A mutant of Quantity: the quantity is rounded up instead of truncated.
QuantityCeil(params) ==
    LET q == Get(params, "part_quantity", IntNum(1))
    IN IF q.n % q.d = 0 THEN IntTrunc(q) ELSE IntTrunc(q) + 1

\* quantity = int(params.get('part_quantity', 1)), for a finite part_quantity.
Quantity(params) == IntTrunc(Get(params, "part_quantity", IntNum(1)))

\* A mutant of WeightRaises: only a negative area raises.
WeightRaisesNegativeOnly(params) ==
    \/ NumLt(AreaMm2(params), IntNum(0))
    \/ IntRaises(Get(params, "part_quantity", IntNum(1)))

\* Whether the try block of step 5 raises: a non-positive area (the ValueError
\* the code raises itself) or int() of a nan or infinite part_quantity.
WeightRaises(params) ==
    \/ NumLe(AreaMm2(params), IntNum(0))
    \/ IntRaises(Get(params, "part_quantity", IntNum(1)))

\* str(params.get('part_name', '')).upper()
NameLine(params) == StrUpper(PyStr(Get(params, "part_name", Lit(""))))

\* The four annotation lines, given the quantity and the two weights.
LinesOf(params, quantity, unit_weight_kg, total_weight_kg) ==
    <<NameLine(params),
      Chars("Espessura: ")
         \o FormatFixed(Get(params, "material_thickness", IntNum(0)), 2)
         \o Chars(" mm  (Qtd: ") \o FormatInt02(quantity) \o Chars("x)"),
      StrReplace(Chars("Peso Unitario: ") \o FormatFixed(unit_weight_kg, 3)
                     \o Chars(" Kg"), ".", ","),
      StrReplace(Chars("Peso Total: ") \o FormatFixed(total_weight_kg, 3)
                     \o Chars(" Kg"), ".", ",")>>

\* total_weight_kg = unit_weight_kg * quantity
TotalWeightKg(unit_weight_kg, quantity) == NumMul(unit_weight_kg, IntNum(quantity))

WeightLinesFor(params, quantity, unit_weight_kg) ==
    LinesOf(params, quantity, unit_weight_kg, TotalWeightKg(unit_weight_kg, quantity))

\* The four annotation lines of a computed weight.
WeightLines(params) == WeightLinesFor(params, Quantity(params), UnitWeightKg(params))

\* The two lines the except branch of step 5 substitutes.
ErrorLines(params) == <<NameLine(params), Chars("ERRO NO CALCULO DE PESO")>>

\* Step 5: the text block, when include_text_info is enabled.
WithTextLines(params) ==
    IF OptionEnabled(params, "include_text_info")
    THEN Put(params, "text_lines",
             [t |-> "list",
              items |-> IF WeightRaises(params) THEN ErrorLines(params)
                        ELSE WeightLines(params)])
    ELSE params

\* ------------------------------------------------------ _prepare_data_for_dxf

\* A mutant of Insufficient: only an absent key is rejected, an empty string
\* passes.
InsufficientAbsentOnly(params) ==
    "part_name" \notin DOMAIN params \/ "shape" \notin DOMAIN params

\* Step 2: not params.get('part_name') or not params.get('shape')
Insufficient(params) ==
    \/ ~Truthy(Get(params, "part_name", PyNone))
    \/ ~Truthy(Get(params, "shape", PyNone))

\* Steps 4 and 5, on the params step 3 coerced: the styles (whose int() calls
\* are guarded by nothing) and the text block.
StyleAndText(params) ==
    IF ColorRaises(params)
    THEN [outcome |-> "raise", exc |-> ColorException(params)]
    ELSE [outcome |-> "ok", params |-> WithTextLines(Put(params, "styles", Styles(params)))]

\* Steps 2 to 5, on the params step 1 translated.
ValidateAndPrepare(params) ==
    IF Insufficient(params)
    THEN [outcome |-> "error", error |-> "Dados insuficientes"]
    ELSE StyleAndText(CoerceNumeric(params, NumericKeys))

\* _prepare_data_for_dxf(raw_data): (params, None) as outcome "ok", (None, error)
\* as outcome "error" ("Dados insuficientes: 'part_name' ou 'shape' ausentes."),
\* or the exception that leaves the function as outcome "raise".
prepare_data_for_dxf(raw_data) == ValidateAndPrepare(TranslateKeys(raw_data, EmptyDict))

\* ---------------------------------------------------------- drawing emitter

\* \w of Python's re on str: letters, digits and the underscore, of any script.
IsWordChar(c) ==
    \/ c \in Range(LowerLetters) \/ c \in Range(UpperLetters)
    \/ c \in {CCedilla, CapCCedilla}
    \/ IsDigit(c) \/ c = "_"

\* A character the class [^\w.-] does not match.
IsKeptChar(c) == IsWordChar(c) \/ c \in {".", "-"}

RECURSIVE SkipDropped(_)
SkipDropped(cs) == IF cs # <<>> /\ ~IsKeptChar(Head(cs)) THEN SkipDropped(Tail(cs)) ELSE cs

RECURSIVE SanitizePerChar(_)
\* A mutant of Sanitize: every dropped character becomes its own underscore.
SanitizePerChar(cs) ==
    IF cs = <<>> THEN <<>>
    ELSE (IF IsKeptChar(Head(cs)) THEN <<Head(cs)>> ELSE <<"_">>) \o SanitizePerChar(Tail(cs))

RECURSIVE Sanitize(_)
\* re.sub(r'[^\w.-]+', '_', s): each maximal run of dropped characters becomes
\* one underscore.
Sanitize(cs) ==
    IF cs = <<>> THEN <<>>
    ELSE IF IsKeptChar(Head(cs)) THEN <<Head(cs)>> \o Sanitize(Tail(cs))
    ELSE <<"_">> \o Sanitize(SkipDropped(cs))

\* f"{sanitized_filename}.dxf"
DxfFilename(params) == Sanitize(PyStr(Get(params, "part_name", PyNone))) \o Chars(".dxf")

\* The registry of contour builders (shape_creators) and of dimension builders
\* (dims_creators): both hold 'rectangle' alone.
InRegistry(shape_type) == shape_type = Lit("rectangle")

\* A mutant of LayersCreated: the layers are created after the shape lookup only.
LayersAfterLookup(params) ==
    IF ~InRegistry(Get(params, "shape", PyNone)) THEN <<>>
    ELSE LET styles == params["styles"]
         IN <<[name |-> "CONTORNO", color |-> styles.contour_color],
              [name |-> "FUROS", color |-> styles.holes_color]>>
            \o (IF Truthy(Get(params, "text_lines", PyNone))
                THEN <<[name |-> "TEXTO", color |-> styles.text_color]>> ELSE <<>>)
            \o (IF styles.include_dims
                THEN <<[name |-> "COTAS", color |-> styles.text_color]>> ELSE <<>>)

\* The layers lines 47-55 create, before the shape is looked up.
LayersCreated(params) ==
    LET styles == params["styles"]
    IN <<[name |-> "CONTORNO", color |-> styles.contour_color],
         [name |-> "FUROS", color |-> styles.holes_color]>>
       \o (IF Truthy(Get(params, "text_lines", PyNone))
           THEN <<[name |-> "TEXTO", color |-> styles.text_color]>> ELSE <<>>)
       \o (IF styles.include_dims
           THEN <<[name |-> "COTAS", color |-> styles.text_color]>> ELSE <<>>)

\* The dimension style line 56 creates.
DimStylesCreated(params) ==
    IF params["styles"].include_dims
    THEN <<[name |-> "NOROACO_DIMSTYLE", dimtxt |-> params["styles"].char_height]>>
    ELSE <<>>

\* The closed polyline of the rectangle builder, moved to layer CONTORNO.
ContourEntity(params) ==
    LET w == params["width"]
        h == params["height"]
        zero == IntNum(0)
    IN [type |-> "LWPOLYLINE", layer |-> "CONTORNO", close |-> TRUE,
        points |-> <<<<zero, zero>>, <<w, zero>>, <<w, h>>, <<zero, h>>>>]

\* What the loop of lines 72-77 iterates: the lines of a list, the characters of
\* a string that reached params['text_lines'] from the raw record.
TextItems(text_lines) ==
    IF text_lines.t = "list" THEN text_lines.items
    ELSE [i \in 1..Len(text_lines.s) |-> <<text_lines.s[i]>>]

\* One text entity per line, stepping down by char_height * 1.5.
TextEntities(params) ==
    LET styles == params["styles"]
        start_point == styles.text_insert_point
        line_spacing == NumMul(styles.char_height, Fin(3, 2))
        items == TextItems(params["text_lines"])
    IN [j \in 1..Len(items) |->
          [type |-> "TEXT", layer |-> "TEXTO", text |-> items[j],
           height |-> styles.char_height,
           insert |-> <<start_point[1],
                        NumSub(start_point[2], NumMul(IntNum(j - 1), line_spacing))>>]]

\* The two aligned dimensions of the rectangle's dimension builder.
DimEntities(params) ==
    LET styles == params["styles"]
        w == params["width"]
        h == params["height"]
        zero == IntNum(0)
    IN <<[type |-> "DIMENSION", layer |-> "COTAS", dimstyle |-> "NOROACO_DIMSTYLE",
          p1 |-> <<zero, h>>, p2 |-> <<w, h>>, distance |-> styles.dim_distance],
         [type |-> "DIMENSION", layer |-> "COTAS", dimstyle |-> "NOROACO_DIMSTYLE",
          p1 |-> <<zero, zero>>, p2 |-> <<zero, h>>,
          distance |-> NumNeg(styles.dim_distance)]>>

\* The document: its layers, dimension styles and model-space entities.
Doc(layers, dimstyles, entities) ==
    [layers |-> layers, dimstyles |-> dimstyles, entities |-> entities]

\* create_dxf_drawing(params): (content, filename) with ok TRUE, or (None, error)
\* with ok FALSE.  doc is the document as the call leaves it (content is its
\* serialisation when the call succeeds).  The errors: "unknown_shape" is
\* "Forma '<shape>' desconhecida.", "missing_parameter" the KeyError message
\* naming the shape and the key, "internal" is "Erro interno de desenho.".  The
\* ezdxf calls themselves are taken to succeed.
create_dxf_drawing(params) ==
    LET layers == LayersCreated(params)
        dimstyles == DimStylesCreated(params)
        shape_type == Get(params, "shape", PyNone)
        has_text == Truthy(Get(params, "text_lines", PyNone))
        missing == {k \in {"width", "height"} : k \notin DOMAIN params}
    IN IF ~InRegistry(shape_type)
       THEN [ok |-> FALSE, doc |-> Doc(layers, dimstyles, <<>>),
             error |-> [kind |-> "unknown_shape", shape |-> PyStr(shape_type)]]
       ELSE IF missing # {}
       THEN [ok |-> FALSE, doc |-> Doc(layers, dimstyles, <<>>),
             error |-> [kind |-> "missing_parameter", shape |-> PyStr(shape_type),
                        key |-> IF "width" \in missing THEN "width" ELSE "height"]]
       ELSE IF has_text /\ params["text_lines"].t \notin {"list", "str"}
       THEN \* enumerate() of a float: TypeError, caught by except Exception
            [ok |-> FALSE, doc |-> Doc(layers, dimstyles, <<ContourEntity(params)>>),
             error |-> [kind |-> "internal"]]
       ELSE LET entities ==
                    <<ContourEntity(params)>>
                    \o (IF has_text THEN TextEntities(params) ELSE <<>>)
                    \o (IF params["styles"].include_dims THEN DimEntities(params)
                        ELSE <<>>)
            IN [ok |-> TRUE, doc |-> Doc(layers, dimstyles, entities),
                filename |-> DxfFilename(params)]

\* ------------------------------------------------------------------- inputs

\* The longest sheet a batch request carries.
MaxRows == 3

\* A raw record of one pair, or of none when the key is left out.
Field(key, values) == {<<>>} \cup {<<<<key, Lit(v)>>>> : v \in values}

One(key, v) == <<<<key, Lit(v)>>>>

\* "Peca 1" spelled with c-cedilla.
PecaName == Str(Chars("Pe") \o <<CCedilla>> \o Chars("a 1"))

TextOn == One("habilitar_bloco", "on")

DimsOn == One("cotas", "true")

RectangleBase == One("nome_arquivo", "P1") \o One("forma", "rectangle")

\* Posted forms that vary the two required fields.
RequiredForms ==
    {n \o sh \o One("largura", "100") \o One("altura", "50") \o tx \o dm :
        n \in Field("nome_arquivo", {"", "P1"}) \cup Field("Drawing Code", {"Part #1/2024"}),
        sh \in Field("forma", {"", "rectangle"}) \cup Field(" Forma ", {"circle"})
               \cup Field("shape", {"Rectangle"}),
        tx \in {<<>>, TextOn}, dm \in {<<>>, DimsOn}}

\* Posted forms that vary the part name.
NameForms ==
    {<<<<"part_name", n>>>> \o One("forma", "rectangle") \o One("largura", "100")
        \o One("altura", "50") \o tx :
        n \in {Lit("Part #1/2024"), Lit("a  b"), Lit("x/"), Lit("A-1_b.2"), Lit("#"),
               Lit(" "), PecaName},
        tx \in {<<>>, TextOn}}

DimensionValues == {"", "0", "-5", "10,5", "100", "1000", "abc", "nan", " 50 "}

\* Posted forms that vary the three dimensions, present or absent.
DimensionForms ==
    {RectangleBase \o w \o h \o d \o tx :
        w \in Field("largura", DimensionValues),
        h \in Field("altura", DimensionValues \cup {"inf"}),
        d \in Field("diametro", {"0", "900", "-1"}),
        tx \in {<<>>, TextOn}}

\* Posted forms that vary the inputs of the weight calculation.
WeightForms ==
    {RectangleBase \o One("largura", w) \o One("altura", "1000") \o th \o de \o q
        \o TextOn :
        w \in {"1000", "10,5"},
        th \in Field("espessura", {"10", "2,5", "", "-2"}),
        de \in Field("material_density", {"7850", "2700", "abc"}),
        q \in Field("qtd", {"2", "2,5", "0", "-3", "nan", "inf", "abc", "", "12"})}

OptionValues == {"true", "ON", "Sim", "1", "yes", "0", "", "on "}

\* Posted forms that vary the two options and carry keys the alias table does
\* not know.
OptionForms ==
    {RectangleBase \o One("largura", "100") \o One("altura", "50") \o tx \o dm \o x :
        tx \in Field("habilitar_bloco", OptionValues),
        dm \in Field("cotas", OptionValues \cup {"SIM"}),
        x \in Field("Text Lines", {"AB", ""}) \cup Field("styles", {"x"})
              \cup Field("obs", {"note"})}

\* Posted forms that vary the colours.
ColorForms ==
    {RectangleBase \o One("largura", "100") \o One("altura", "50") \o c \o hc \o tc \o tx :
        c \in Field("contour_color", {"3", "2,9", "#ff0000", "nan", "inf"}),
        hc \in Field("holes_color", {"5", "-inf"}),
        tc \in Field("text_color", {"4", "NaN"}),
        tx \in {<<>>, TextOn}}

\* Posted forms in which two keys translate to the same internal key.
AliasForms ==
    {a \o b \o One("forma", "rectangle") \o One("largura", "100") \o One("altura", w) :
        a \in Field("part_name", {"P1", ""}),
        b \in Field("nome_arquivo", {"P2", ""}),
        w \in {"50", "0"}}
    \cup {One("nome_arquivo", "P1") \o One("shape", s1) \o One("forma", s2)
            \o One("width", "100") \o One("Largura", w) \o One("altura", "50") :
            s1 \in {"rectangle", ""}, s2 \in {"rectangle", "circle", ""}, w \in {"70", ""}}

\* request.form.to_dict(flat=True) of the single-record route.
FormRecords ==
    RequiredForms \cup NameForms \cup DimensionForms \cup WeightForms
    \cup OptionForms \cup ColorForms \cup AliasForms

\* A sheet layout: the column headers, the rows a sheet of that layout is made
\* of (one cell per column; an empty cell is the float nan) and the form fields
\* posted with it.
PlainLayout ==
    [columns |-> <<"Nome Arquivo", "Forma", "Largura", "Altura">>,
     rows |-> {<<Lit("P1"), Lit("rectangle"), Lit("100"), Lit("50")>>,
               <<Lit("P2"), NaN, Lit("100"), Lit("50")>>,
               <<Lit("P1"), Lit("rectangle"), Lit("10,5"), NaN>>,
               <<NaN, NaN, NaN, NaN>>},
     forms |-> {<<>>, TextOn \o One("espessura", "10"), DimsOn \o One("largura", "200"),
                One("nome_arquivo", "")}]

AliasLayout ==
    [columns |-> <<"nome_arquivo", "forma", "width", "largura", "altura">>,
     rows |-> {<<Lit("P1"), Lit("rectangle"), Lit("100"), Lit("50"), Lit("20")>>,
               <<Lit("P2"), Lit("circle"), Lit("100"), NaN, Lit("20")>>,
               <<NaN, Lit("rectangle"), NaN, Lit("30"), Lit("20")>>},
     forms |-> {<<>>, One("width", "200"), One("Largura", "300"),
                One("altura", "40") \o TextOn}]

ColorLayout ==
    [columns |-> <<"nome_arquivo", "forma", "largura", "altura", "contour_color">>,
     rows |-> {<<Lit("P1"), Lit("rectangle"), Lit("100"), Lit("50"), Lit("3")>>,
               <<Lit("P2"), Lit("rectangle"), Lit("100"), Lit("50"), NaN>>,
               <<Lit("P4"), Lit("rectangle"), Lit("0"), Lit("50"), Lit("1")>>},
     forms |-> {<<>>, One("contour_color", "5"), TextOn}]

NotesLayout ==
    [columns |-> <<"nome_arquivo", "forma", "largura", "altura", "Text Lines">>,
     rows |-> {<<Lit("P1"), Lit("rectangle"), Lit("100"), Lit("50"), NaN>>,
               <<Lit("P3"), Lit("rectangle"), Lit("100"), Lit("50"), Lit("AB")>>},
     forms |-> {<<>>, TextOn}]

Layouts == {PlainLayout, AliasLayout, ColorLayout, NotesLayout}

\* The sheets of a layout: up to MaxRows of its rows, in any order.
SheetsOf(layout) == UNION {[1..n -> layout.rows] : n \in 0..MaxRows}

\* ------------------------------------------------------------ state machine

VARIABLES
    pc,        \* "idle", "loop" (inside the loop of generate_dxf_batch) or "responded"
    route,     \* "none", "single" or "batch"
    columns,   \* the sheet's column headers (batch)
    sheet,     \* the sheet's rows, empty ones included (batch)
    form,      \* request.form
    cursor,    \* how many rows of df the loop has consumed
    trace,     \* per record run: its raw_data, what preparation and drawing gave
    archive,   \* the (filename, content) entries written to the zip, in order
    log,       \* the warnings logged for skipped rows
    response   \* what the route answered

vars == <<pc, route, columns, sheet, form, cursor, trace, archive, log, response>>

NoResponse == [status |-> 0, kind |-> "none"]

NotCalled == [ok |-> FALSE, called |-> FALSE]

\* One record's pipeline run as the routes perform it: preparation, then
\* drawing only when preparation returned no error.
DrawPrepared(raw_data, prepared) ==
    [raw |-> raw_data,
     prepared |-> prepared,
     drawn |-> IF prepared.outcome = "ok"
               THEN create_dxf_drawing(prepared.params) @@ [called |-> TRUE]
               ELSE NotCalled]

RunRecord(raw_data) == DrawPrepared(raw_data, prepare_data_for_dxf(raw_data))

\* dropna(how='all'): the positions of the rows with at least one cell filled.
RECURSIVE KeptFrom(_, _)
KeptFrom(rows, i) ==
    IF i > Len(rows) THEN <<>>
    ELSE (IF \E c \in 1..Len(rows[i]) : rows[i][c] # NaN THEN <<i>> ELSE <<>>)
         \o KeptFrom(rows, i + 1)

\* df.iterrows(): the kept rows' sheet positions (index is the position minus 1).
DfRows(rows) == KeptFrom(rows, 1)

\* row.to_dict()
RowDict(cols, row) == [c \in 1..Len(cols) |-> <<cols[c], row[c]>>]

Init ==
    /\ pc = "idle"
    /\ route = "none"
    /\ columns = <<>>
    /\ sheet = <<>>
    /\ form = <<>>
    /\ cursor = 0
    /\ trace = <<>>
    /\ archive = <<>>
    /\ log = <<>>
    /\ response = NoResponse

\* What generate_dxf_from_form answers for a record's run.
FormResponse(run) ==
    IF run.prepared.outcome = "raise"
    THEN [status |-> 500, kind |-> "exception", exc |-> run.prepared.exc]
    ELSE IF run.prepared.outcome = "error"
    THEN [status |-> 400, kind |-> "bad_data", error |-> run.prepared.error]
    ELSE IF ~run.drawn.ok
    THEN [status |-> 500, kind |-> "draw_failed", error |-> run.drawn.error]
    ELSE [status |-> 200, kind |-> "file", filename |-> run.drawn.filename,
          content |-> run.drawn.doc]

FormAnswer(run) ==
    /\ trace' = <<run>>
    /\ response' = FormResponse(run)

\* generate_dxf_from_form, whole.
FormRequest(raw_data) ==
    /\ pc = "idle"
    /\ FormAnswer(RunRecord(raw_data))
    /\ form' = raw_data
    /\ route' = "single"
    /\ pc' = "responded"
    /\ UNCHANGED <<columns, sheet, cursor, archive, log>>

\* generate_dxf_batch, lines 182-190: no file, no file name, or a file
\* read_excel cannot read.
BatchRejected(reason) ==
    /\ pc = "idle"
    /\ response' = [status |-> IF reason = "unreadable" THEN 500 ELSE 400, kind |-> reason]
    /\ route' = "batch"
    /\ pc' = "responded"
    /\ UNCHANGED <<columns, sheet, form, cursor, trace, archive, log>>

\* generate_dxf_batch, lines 182-193: the sheet is read and the zip opened.
BatchRequest(layout, rows, fields) ==
    /\ pc = "idle"
    /\ columns' = layout.columns
    /\ sheet' = rows
    /\ form' = fields
    /\ route' = "batch"
    /\ pc' = "loop"
    /\ UNCHANGED <<cursor, trace, archive, log, response>>

\* What the loop does with a row's result (lines 198-208).  An exception raised
\* by _prepare_data_for_dxf is caught nowhere: it ends the request.
RowOutcome(position, run) ==
    /\ trace' = Append(trace, run)
    /\ IF run.prepared.outcome = "raise"
       THEN /\ pc' = "responded"
            /\ response' = [status |-> 500, kind |-> "exception", exc |-> run.prepared.exc]
            /\ UNCHANGED <<archive, log>>
       ELSE /\ pc' = pc
            /\ response' = response
            /\ IF run.prepared.outcome = "error"
               THEN /\ log' = Append(log, [line |-> position + 1, what |-> "Ignorando linha"])
                    /\ archive' = archive
               ELSE IF ~run.drawn.ok
               THEN /\ log' = Append(log, [line |-> position + 1,
                                           what |-> "Falha ao desenhar"])
                    /\ archive' = archive
               ELSE /\ archive' = Append(archive, <<run.drawn.filename, run.drawn.doc>>)
                    /\ log' = log

\* raw_data = row.to_dict(); raw_data.update(request.form)
RowRawData(position) == DictUpdate(RowDict(columns, sheet[position]), form)

RowAt(position) == RowOutcome(position, RunRecord(RowRawData(position)))

\* One iteration of the loop, lines 194-208.
BatchRow ==
    /\ pc = "loop"
    /\ cursor < Len(DfRows(sheet))
    /\ RowAt(DfRows(sheet)[cursor + 1])
    /\ cursor' = cursor + 1
    /\ UNCHANGED <<route, columns, sheet, form>>

\* generate_dxf_batch, lines 210-212: the zip is sent.
BatchSend ==
    /\ pc = "loop"
    /\ cursor = Len(DfRows(sheet))
    /\ response' = [status |-> 200, kind |-> "zip", entries |-> archive]
    /\ pc' = "responded"
    /\ UNCHANGED <<route, columns, sheet, form, cursor, trace, archive, log>>

\* The request is over: nothing of it outlives the handler.
Return ==
    /\ pc = "responded"
    /\ pc' = "idle"
    /\ route' = "none"
    /\ columns' = <<>>
    /\ sheet' = <<>>
    /\ form' = <<>>
    /\ cursor' = 0
    /\ trace' = <<>>
    /\ archive' = <<>>
    /\ log' = <<>>
    /\ response' = NoResponse

Next ==
    \/ \E raw_data \in FormRecords : FormRequest(raw_data)
    \/ \E reason \in {"no_file", "no_filename", "unreadable"} : BatchRejected(reason)
    \/ \E layout \in Layouts : \E rows \in SheetsOf(layout) : \E fields \in layout.forms :
          BatchRequest(layout, rows, fields)
    \/ BatchRow
    \/ BatchSend
    \/ Return

Spec == Init /\ [][Next]_vars

\* ------------------------------------------------------------------- claims

\* What step 1 makes of a run's raw record.
Translated(run) == TranslateKeys(run.raw, EmptyDict)

Runs == {trace[i] : i \in 1..Len(trace)}

Prepared(run) == run.prepared.outcome = "ok"

Succeeds(run) == Prepared(run) /\ run.drawn.ok

LayerNames(run) == {run.drawn.doc.layers[i].name : i \in 1..Len(run.drawn.doc.layers)}

EntitiesOf(run, type) ==
    {i \in 1..Len(run.drawn.doc.entities) : run.drawn.doc.entities[i].type = type}

\* The rows of the sheet that df keeps and the loop is to process.
BatchRuns == {RunRecord(RowRawData(DfRows(sheet)[i])) : i \in 1..Len(DfRows(sheet))}

SuccessfulRows ==
    {i \in 1..Len(DfRows(sheet)) : Succeeds(RunRecord(RowRawData(DfRows(sheet)[i])))}

\* C1 (as claimed): a batch whose sheet was read always runs its loop to the end
\* and answers with the archive, no exception leaving the loop; the archive holds
\* exactly one entry per record that was prepared and drawn, and every other
\* record was logged as skipped.
C1_BatchAlwaysCompletes ==
    (route = "batch" /\ pc = "responded"
        /\ response.kind \notin {"no_file", "no_filename", "unreadable"})
    => /\ response.kind = "zip"
       /\ Len(trace) = Len(DfRows(sheet))
       /\ Len(response.entries) = Cardinality(SuccessfulRows)
       /\ Len(log) = Len(DfRows(sheet)) - Cardinality(SuccessfulRows)

\* A record in which part_name or shape, after key normalization, is absent or
\* the empty string.
Lacks(params) ==
    \E k \in {"part_name", "shape"} : k \notin DOMAIN params \/ params[k] = Lit("")

LacksRequired(run) == Lacks(Translated(run))

UnknownShapeIn(params) == ~Lacks(params) /\ params["shape"] # Lit("rectangle")

UnknownShape(run) == UnknownShapeIn(Translated(run))

\* C3 (as claimed): a record whose shape does not resolve in the registry is
\* rejected before any drawing attempt: no layer and no entity is ever created
\* for it.
C3_UnknownShapeBeforeDrawing ==
    \A run \in Runs :
        UnknownShape(run)
        => \/ ~run.drawn.called
           \/ (run.drawn.doc.layers = <<>> /\ run.drawn.doc.entities = <<>>)

\* C3 (amended): preparation does not look the shape up.  A record with a
\* non-empty shape other than 'rectangle' that preparation returns reaches
\* create_dxf_drawing, which first creates the layers CONTORNO and FUROS (TEXTO
\* too when there are text lines, COTAS and the dimension style when include_dims
\* is set) and only then fails the lookup: it returns (None, "Forma '<shape>'
\* desconhecida.") with no entity created, and the record yields no content.
C3_UnknownShapeRejectedInDrawing ==
    \A i \in 1..Len(trace) :
        (UnknownShape(trace[i]) /\ Prepared(trace[i]))
        => /\ trace[i].drawn.called
           /\ ~trace[i].drawn.ok
           /\ trace[i].drawn.error.kind = "unknown_shape"
           /\ trace[i].drawn.error.shape = PyStr(Translated(trace[i])["shape"])
           /\ trace[i].drawn.doc.entities = <<>>
           /\ {"CONTORNO", "FUROS"} \subseteq LayerNames(trace[i])
           /\ "TEXTO" \in LayerNames(trace[i])
                <=> Truthy(Get(trace[i].prepared.params, "text_lines", PyNone))
           /\ "COTAS" \in LayerNames(trace[i])
                <=> trace[i].prepared.params["styles"].include_dims
           /\ Len(trace[i].drawn.doc.dimstyles)
                = (IF trace[i].prepared.params["styles"].include_dims THEN 1 ELSE 0)
           /\ (route = "single" /\ pc = "responded") => response.kind = "draw_failed"
           /\ (route = "batch" /\ i = Len(trace)) => Len(log) > 0

\* C3 witness: a record with shape 'circle' was handed to create_dxf_drawing,
\* which made four layers before it rejected the shape.
C3_Witness ==
    \E run \in Runs :
        /\ UnknownShape(run)
        /\ Translated(run)["shape"] = Lit("circle")
        /\ run.drawn.called
        /\ LayerNames(run) = {"CONTORNO", "FUROS", "TEXTO", "COTAS"}
        /\ run.drawn.error.kind = "unknown_shape"

\* What Python's float() gives for each raw value the model's inputs put in a
\* numeric field, after the comma is read as a decimal point; the strings of
\* Unparseable are those float() rejects.
ExpectedFloats ==
    "0" :> Fin(0, 1) @@ "-5" :> Fin(-5, 1) @@ "10,5" :> Fin(21, 2) @@ "100" :> Fin(100, 1)
    @@ "1000" :> Fin(1000, 1) @@ "nan" :> NaN @@ " 50 " :> Fin(50, 1) @@ "inf" :> Inf(1)
    @@ "900" :> Fin(900, 1) @@ "-1" :> Fin(-1, 1) @@ "10" :> Fin(10, 1)
    @@ "2,5" :> Fin(5, 2) @@ "-2" :> Fin(-2, 1) @@ "7850" :> Fin(7850, 1)
    @@ "2700" :> Fin(2700, 1) @@ "2" :> Fin(2, 1) @@ "-3" :> Fin(-3, 1)
    @@ "12" :> Fin(12, 1) @@ "50" :> Fin(50, 1) @@ "70" :> Fin(70, 1)
    @@ "200" :> Fin(200, 1) @@ "300" :> Fin(300, 1) @@ "40" :> Fin(40, 1)
    @@ "20" :> Fin(20, 1) @@ "30" :> Fin(30, 1)

Unparseable == {"", "abc"}

\* The declared default of a numeric field: 1.0 for part_quantity, else 0.0.
DeclaredDefault(key) == IF key = "part_quantity" THEN Fin(1, 1) ELSE Fin(0, 1)

RawText(value) == Join(PyStr(value))

\* The number a raw value of a numeric field stands for.
ExpectedNumber(key, value) ==
    IF RawText(value) \in Unparseable THEN DeclaredDefault(key)
    ELSE ExpectedFloats[RawText(value)]

\* Every numeric field of the bundle holds the number its raw value stands for,
\* the declared default when the record has no such key.
AllNumbers(raw, params) ==
    \A key \in Range(NumericKeys) :
        /\ key \in DOMAIN params
        /\ params[key] = (IF key \in DOMAIN raw THEN ExpectedNumber(key, raw[key])
                          ELSE DeclaredDefault(key))

\* Every numeric field the record carries holds the float its raw value stands
\* for; the others are absent from the bundle.
PresentCoerced(raw, params) ==
    \A key \in Range(NumericKeys) :
        IF key \in DOMAIN raw
        THEN /\ RawText(raw[key]) \in DOMAIN ExpectedFloats \cup Unparseable
             /\ key \in DOMAIN params
             /\ params[key].t = "num"
             /\ params[key] = ExpectedNumber(key, raw[key])
        ELSE key \notin DOMAIN params

\* C4 (as claimed): after a successful preparation every one of the six numeric
\* fields holds a number: the parsed value, or the declared default when the raw
\* value does not parse and also when the key is absent from the record.
C4_NumericFieldsAlwaysNumbers ==
    \A run \in Runs : Prepared(run) => AllNumbers(Translated(run), run.prepared.params)

\* C4 (amended): after a successful preparation each of the six numeric fields
\* whose key the record carries holds a float: the parsed value when the raw value
\* parses with comma or dot as decimal separator ("10,5" gives 10.5), its declared
\* default (1.0 for part_quantity, else 0.0) when the raw value is unparseable or
\* empty; a field whose key is absent from the record stays absent from the
\* bundle; to_float raises for no value.
C4_PresentNumericFieldsCoerced ==
    \A run \in Runs : Prepared(run) => PresentCoerced(Translated(run), run.prepared.params)

\* C4 witness: a prepared record with width "10,5" read as 10.5, an unparseable
\* height replaced by 0.0 and no diameter key.
C4_Witness ==
    \E run \in Runs :
        /\ Prepared(run)
        /\ Get(Translated(run), "width", PyNone) = Lit("10,5")
        /\ run.prepared.params["width"] = Fin(21, 2)
        /\ Get(Translated(run), "height", PyNone) = Lit("abc")
        /\ run.prepared.params["height"] = Fin(0, 1)
        /\ "diameter" \notin DOMAIN run.prepared.params

\* The value the prepared bundle must hold for a global field.
GlobalValue(key, value) ==
    IF key \in Range(NumericKeys) THEN ExpectedNumber(key, value) ELSE value

\* C5 (as claimed): in batch mode every prepared record holds, under the
\* canonical key of each global override field, the global value, whatever keys
\* the row itself carries.
C5_GlobalOverridesWin ==
    route = "batch"
    => \A run \in Runs :
          Prepared(run)
          => \A j \in 1..Len(form) :
                /\ internal_key(form[j][1]) \in DOMAIN run.prepared.params
                /\ run.prepared.params[internal_key(form[j][1])]
                      = GlobalValue(internal_key(form[j][1]), form[j][2])

AsciiSafe(c) ==
    c \in Range(LowerLetters) \cup Range(UpperLetters) \cup Range(DigitChars) \cup {".", "_", "-"}

\* A character the sanitizer keeps: a word character of any script, '.' or '-'.
KeptClass(c) == AsciiSafe(c) \/ c \in {CCedilla, CapCCedilla}

PartName(run) == PyStr(run.prepared.params["part_name"])

\* The positions of name that give a character of the stem: a kept character,
\* or the first character of a run of dropped ones.
StemSources(name) ==
    {i \in 1..Len(name) : KeptClass(name[i]) \/ i = 1 \/ KeptClass(name[i - 1])}

\* stem is name with every maximal run of dropped characters replaced by one '_'.
RunsReplaced(name, stem) ==
    /\ Len(stem) = Cardinality(StemSources(name))
    /\ \A i \in StemSources(name) :
          stem[Cardinality({j \in StemSources(name) : j <= i})]
             = (IF KeptClass(name[i]) THEN name[i] ELSE "_")

\* C6 (as claimed): the filename is part_name with every character outside
\* [A-Za-z0-9._-] replaced by '_', followed by ".dxf", so it holds only
\* characters of [A-Za-z0-9._-].
C6_FilenamePerCharAscii ==
    \A run \in Runs :
        Succeeds(run)
        => /\ run.drawn.filename
                = [i \in 1..Len(PartName(run)) |->
                      IF AsciiSafe(PartName(run)[i]) THEN PartName(run)[i] ELSE "_"]
                  \o Chars(".dxf")
           /\ \A i \in 1..Len(run.drawn.filename) : AsciiSafe(run.drawn.filename[i])

Stem(filename) == SubSeq(filename, 1, Len(filename) - 4)

\* C6 (amended): the filename is part_name with every maximal run of characters
\* that are neither word characters (letters and digits of any script, '_') nor
\* '.' nor '-' replaced by a single '_', followed by ".dxf"; it holds only such
\* characters, and only characters of [A-Za-z0-9._-] when part_name is ASCII.
C6_FilenameRunsCollapsed ==
    \A run \in Runs :
        Succeeds(run)
        => /\ Len(run.drawn.filename) >= 4
           /\ SubSeq(run.drawn.filename, Len(run.drawn.filename) - 3,
                     Len(run.drawn.filename)) = Chars(".dxf")
           /\ RunsReplaced(PartName(run), Stem(run.drawn.filename))
           /\ \A i \in 1..Len(run.drawn.filename) : KeptClass(run.drawn.filename[i])
           /\ (\A i \in 1..Len(PartName(run)) :
                    PartName(run)[i] \notin {CCedilla, CapCCedilla})
                => \A i \in 1..Len(run.drawn.filename) : AsciiSafe(run.drawn.filename[i])

\* C6 witness: "Part #1/2024" was drawn and named "Part_1_2024.dxf".
C6_Witness ==
    \E run \in Runs :
        /\ Succeeds(run)
        /\ PartName(run) = Chars("Part #1/2024")
        /\ run.drawn.filename = Chars("Part_1_2024.dxf")

\* Whether an option's raw value, lowercased, is one of the truthy tokens.
Requested(params, key) ==
    Join(StrLower(PyStr(Get(params, key, Lit(""))))) \in {"true", "on", "1", "sim"}

\* A coerced numeric field, or the fallback the weight calculation reads it with.
Field0(params, key) == Get(params, key, Fin(0, 1))

TextLinesOf(run) == run.prepared.params["text_lines"].items

\* A prepared rectangle with include_text_info enabled and width x height > 0.
WeighedRectangle(run) ==
    /\ Prepared(run)
    /\ run.prepared.params["shape"] = Lit("rectangle")
    /\ Requested(run.prepared.params, "include_text_info")
    /\ NumGt(NumMul(Field0(run.prepared.params, "width"),
                    Field0(run.prepared.params, "height")), Fin(0, 1))

\* (width x height / 1e6) x (thickness / 1000) x density, density 7850 when the
\* record supplies none.
ClaimedUnitWeight(params) ==
    NumMul(NumMul(NumDivInt(NumMul(Field0(params, "width"), Field0(params, "height")),
                            1000000),
                  NumDivInt(Field0(params, "material_thickness"), 1000)),
           Get(params, "material_density", Fin(7850, 1)))

CoercedQuantity(params) == Get(params, "part_quantity", Fin(1, 1))

\* The integer a finite q truncates to, toward zero.
TruncatedToward0(q) ==
    CHOOSE z \in -100..100 :
        IF q.n >= 0 THEN z * q.d <= q.n /\ q.n < (z + 1) * q.d
        ELSE (z - 1) * q.d < q.n /\ q.n <= z * q.d

WeightLine(label, kg) == StrReplace(Chars(label) \o FormatFixed(kg, 3) \o Chars(" Kg"), ".", ",")

\* The record of the specification's example: 1000 x 1000 x 10 mm, quantity 2.
ExampleWeights(params) ==
    /\ Field0(params, "width") = Fin(1000, 1)
    /\ Field0(params, "height") = Fin(1000, 1)
    /\ Field0(params, "material_thickness") = Fin(10, 1)
    /\ Get(params, "material_density", Fin(7850, 1)) = Fin(7850, 1)

\* C7 (as claimed): a rectangle with include_text_info enabled and
\* width x height > 0 gets exactly 4 annotation lines, the unit weight computed by
\* the formula and the total weight being the unit weight times the record's
\* coerced part_quantity.
C7_TotalIsUnitTimesCoercedQuantity ==
    \A run \in Runs :
        WeighedRectangle(run)
        => /\ Len(TextLinesOf(run)) = 4
           /\ TextLinesOf(run)[3]
                = WeightLine("Peso Unitario: ", ClaimedUnitWeight(run.prepared.params))
           /\ TextLinesOf(run)[4]
                = WeightLine("Peso Total: ",
                             NumMul(ClaimedUnitWeight(run.prepared.params),
                                    CoercedQuantity(run.prepared.params)))

\* C7 (amended): for a rectangle with include_text_info enabled and
\* width x height > 0 that preparation returns, a finite coerced part_quantity
\* gives exactly 4 annotation lines in which unit_weight_kg =
\* (width x height / 1e6) x (thickness / 1000) x density (7850 when not supplied)
\* and total_weight_kg = unit_weight_kg x quantity, quantity being the coerced
\* part_quantity truncated toward zero to an integer (2,5 counts as 2); the
\* example gives "78,500" and "157,000".  A part_quantity that coerces to nan or
\* infinity gives the 2-line diagnostic instead.
C7_TotalIsUnitTimesTruncatedQuantity ==
    \A run \in Runs :
        WeighedRectangle(run)
        => IF IsFinite(CoercedQuantity(run.prepared.params))
           THEN /\ Len(TextLinesOf(run)) = 4
                /\ TextLinesOf(run)[1] = StrUpper(PartName(run))
                /\ TextLinesOf(run)[3]
                     = WeightLine("Peso Unitario: ", ClaimedUnitWeight(run.prepared.params))
                /\ TextLinesOf(run)[4]
                     = WeightLine("Peso Total: ",
                          NumMul(ClaimedUnitWeight(run.prepared.params),
                                 Fin(TruncatedToward0(CoercedQuantity(run.prepared.params)), 1)))
                /\ ExampleWeights(run.prepared.params)
                     => TextLinesOf(run)[3] = Chars("Peso Unitario: 78,500 Kg")
                /\ (ExampleWeights(run.prepared.params)
                      /\ CoercedQuantity(run.prepared.params) \in {Fin(2, 1), Fin(5, 2)})
                     => TextLinesOf(run)[4] = Chars("Peso Total: 157,000 Kg")
           ELSE TextLinesOf(run) = <<StrUpper(PartName(run)), Chars("ERRO NO CALCULO DE PESO")>>

\* C7 witness: the example record with part_quantity "2,5" was prepared: unit
\* weight 78,500 and total weight 157,000 (the quantity counted as 2).
C7_Witness ==
    \E run \in Runs :
        /\ WeighedRectangle(run)
        /\ ExampleWeights(run.prepared.params)
        /\ CoercedQuantity(run.prepared.params) = Fin(5, 2)
        /\ TextLinesOf(run)[3] = Chars("Peso Unitario: 78,500 Kg")
        /\ TextLinesOf(run)[4] = Chars("Peso Total: 157,000 Kg")

\* The number a record's width or height stands for: 0 when the key is absent,
\* unparseable or empty.
RawDimension(raw, key) ==
    IF key \in DOMAIN raw THEN ExpectedNumber(key, raw[key]) ELSE Fin(0, 1)

\* A record with part_name, shape 'rectangle', include_text_info enabled and a
\* computed area <= 0.
ZeroAreaIn(raw) ==
    /\ ~Lacks(raw)
    /\ raw["shape"] = Lit("rectangle")
    /\ Requested(raw, "include_text_info")
    /\ NumLe(NumMul(RawDimension(raw, "width"), RawDimension(raw, "height")), Fin(0, 1))

ZeroAreaRectangle(run) == ZeroAreaIn(Translated(run))

DiagnosticLines(raw) ==
    <<StrUpper(PyStr(raw["part_name"])), Chars("ERRO NO CALCULO DE PESO")>>

BadColour(raw) ==
    \E key \in {"contour_color", "holes_color", "text_color"} :
        /\ key \in DOMAIN raw
        /\ Join(StrLower(StrStrip(PyStr(raw[key])))) \in {"nan", "inf", "-inf"}

\* What becomes of a record of that kind, raw being its translated record.
ZeroAreaHandled(run, raw) ==
    /\ Prepared(run) <=> ~BadColour(raw)
    /\ ~Prepared(run) => run.prepared.outcome = "raise" /\ ~run.drawn.called
    /\ Prepared(run)
         => /\ TextLinesOf(run) = DiagnosticLines(raw)
            /\ run.drawn.called
            /\ run.drawn.ok <=> {"width", "height"} \subseteq DOMAIN raw
            /\ run.drawn.ok
                 => /\ "TEXTO" \in LayerNames(run)
                    /\ Cardinality(EntitiesOf(run, "TEXT")) = 2
                    /\ \A i \in EntitiesOf(run, "TEXT") :
                          run.drawn.doc.entities[i].text = DiagnosticLines(raw)[i - 1]
            /\ ~run.drawn.ok
                 => /\ run.drawn.error.kind = "missing_parameter"
                    /\ run.drawn.error.key \notin DOMAIN raw
                    /\ run.drawn.error.shape = Chars("rectangle")

Dimensions(params) == {Field0(params, key) : key \in {"width", "height", "diameter"}}

\* The greatest of a set of numbers none of which is nan.
Greatest(xs) == CHOOSE m \in xs : \A x \in xs : NumLe(x, m)

\* clamp(x, 5, 35)
Clamped(x) ==
    IF NumLt(x, Fin(5, 1)) THEN Fin(5, 1) ELSE IF NumGt(x, Fin(35, 1)) THEN Fin(35, 1) ELSE x

StyleOf(run) == run.prepared.params["styles"]

\* C9: every prepared bundle, whatever width, height and diameter are (present,
\* absent, zero or negative), has 5 <= char_height <= 35, dim_distance =
\* max(15, 3 x char_height) >= 15 and text_insert_point = (0, -2 x char_height);
\* char_height = clamp(max_dim / 25, 5, 35), max_dim being the greatest of the
\* three dimensions or 200 when that is not positive.
C9_StyleScaledAndClamped ==
    \A run \in Runs :
        Prepared(run)
        => /\ NumLe(Fin(5, 1), StyleOf(run).char_height)
           /\ NumLe(StyleOf(run).char_height, Fin(35, 1))
           /\ NumLe(Fin(15, 1), StyleOf(run).dim_distance)
           /\ StyleOf(run).dim_distance
                = IF NumGt(NumMul(StyleOf(run).char_height, Fin(3, 1)), Fin(15, 1))
                  THEN NumMul(StyleOf(run).char_height, Fin(3, 1))
                  ELSE Fin(15, 1)
           /\ StyleOf(run).text_insert_point
                = <<Fin(0, 1), NumSub(Fin(0, 1), NumMul(Fin(2, 1), StyleOf(run).char_height))>>
           /\ (\A x \in Dimensions(run.prepared.params) : ~IsNaN(x))
                => StyleOf(run).char_height
                     = Clamped(NumDivInt(
                           IF NumGt(Greatest(Dimensions(run.prepared.params)), Fin(0, 1))
                           THEN Greatest(Dimensions(run.prepared.params))
                           ELSE Fin(200, 1), 25))

\* C9 witness: a bundle with no width key and a negative height was prepared:
\* max_dim fell back to 200, giving char_height 8, dim_distance 24 and
\* text_insert_point (0, -16).
C9_Witness ==
    \E run \in Runs :
        /\ Prepared(run)
        /\ "width" \notin DOMAIN run.prepared.params
        /\ NumLt(Field0(run.prepared.params, "height"), Fin(0, 1))
        /\ StyleOf(run).char_height = Fin(8, 1)
        /\ StyleOf(run).dim_distance = Fin(24, 1)
        /\ StyleOf(run).text_insert_point = <<Fin(0, 1), Fin(-16, 1)>>

\* C10: for every record drawn successfully, the document has the TEXTO layer
\* and TEXT entities exactly when the record's include_text_info, lowercased, is
\* one of "true", "on", "1", "sim", and the COTAS layer, the dimension style and
\* DIMENSION entities exactly when its include_dims is one of them; no other
\* content of the record, unrecognized keys included, adds or suppresses them.
C10_OnlyOptionsControlLayers ==
    \A run \in Runs :
        Succeeds(run)
        => /\ "TEXTO" \in LayerNames(run) <=> Requested(Translated(run), "include_text_info")
           /\ EntitiesOf(run, "TEXT") # {} <=> Requested(Translated(run), "include_text_info")
           /\ "COTAS" \in LayerNames(run) <=> Requested(Translated(run), "include_dims")
           /\ Len(run.drawn.doc.dimstyles) > 0 <=> Requested(Translated(run), "include_dims")
           /\ EntitiesOf(run, "DIMENSION") # {} <=> Requested(Translated(run), "include_dims")

====
